---- MODULE Spec2Model ----
(***************************************************************************)
(* scripts/download_large.py: parallel resumable downloader.               *)
(*                                                                         *)
(* The model follows parallel_download (the orchestrator), the segment     *)
(* workers download_part_direct running concurrently on the thread pool,   *)
(* the sequential transfer single_thread_download, and the disk: the       *)
(* output file, the sidecar directory out + ".parts" and one state file    *)
(* per part.  The remote resource has `size` bytes; the byte at 0-based    *)
(* offset o is modelled by the value o + 1, a hole of the file by 0.       *)
(* A process kill ends a run at any point and leaves the disk as it is.    *)
(***************************************************************************)
EXTENDS Integers, Sequences, FiniteSets, TLC

\* Bounds of the model
MaxSize    == 3      \* largest resource length, in bytes
MaxRetries == 1      \* largest --retries
ChunkBytes == 1      \* largest block iter_content yields, in bytes
\* The values of --parts: 1 takes the sequential path, 2 runs two concurrent workers
PartsArgs  == {1, 2}
\* One more job, <<size, parts>>: more parts than the resource has bytes
ExtraJobs  == {<<1, 3>>}
Jobs       == ((1 .. MaxSize) \X PartsArgs) \cup ExtraJobs
MaxParts   == CHOOSE m \in {j[2] : j \in Jobs} : \A j \in Jobs : j[2] <= m

VARIABLES
    \* the job: the resource behind url, and the arguments of every invocation
    size, parts, retries,
    \* the disk
    fexists, fdata, dirExists, state,
    \* parallel_download
    pc, psize, range_ok, tasks, progress, ok, range_not_supported,
    future_map, result, seqWhy, seqShort,
    \* download_part_direct, one per part index
    wpc, attempt, done_bytes, local_done, wres,
    \* bookkeeping of the run
    probeCount, seqCount, state0, posWrites, did

jobVars   == <<size, parts, retries>>
diskVars  == <<fexists, fdata, dirExists, state>>
orchVars  == <<pc, psize, range_ok, tasks, progress, ok, range_not_supported,
               future_map, result, seqWhy, seqShort>>
workVars  == <<wpc, attempt, done_bytes, local_done, wres>>
histVars  == <<probeCount, seqCount, state0, posWrites, did>>
vars      == <<jobVars, diskVars, orchVars, workVars, histVars>>

Idx == 0 .. (MaxParts - 1)

Min(a, b) == IF a < b THEN a ELSE b
Max(a, b) == IF a > b THEN a ELSE b

\* The remote resource: byte at offset o (0-based) is o + 1.
Content(n) == [k \in 1 .. n |-> k]

\* Bytes [from, to] (0-based, inclusive) of the resource, as the server sends them.
Body(from, to) == [k \in 1 .. (to - from + 1) |-> from + k]

----------------------------------------------------------------------------
\* Pure helpers

\* math.ceil(size / parts)
CeilDiv(a, b) == (a + b - 1) \div b

PlanStart(i, sz, p) == i * CeilDiv(sz, p)
PlanEnd(i, sz, p)   == Min(PlanStart(i, sz, p) + CeilDiv(sz, p) - 1, sz - 1)

\* tasks, 1-based: tasks[i + 1] is the (s, e) of part i
Plan(sz, p) == [k \in 1 .. p |-> <<PlanStart(k - 1, sz, p), PlanEnd(k - 1, sz, p)>>]

Start(i)    == tasks[i + 1][1]
End(i)      == tasks[i + 1][2]
Expected(i) == End(i) - Start(i) + 1

\* _read_state: 0 when the file is absent or unreadable (absent is -1 here)
ReadStateOf(st, i) == IF st[i] < 0 THEN 0 ELSE st[i]
ReadState(i)       == ReadStateOf(state, i)

MutWriteAt(f, off, data) == f
\* _write_at / os.pwrite: bytes land at [off, off + Len(data)), a gap past the
\* old end reads as zeros
WriteAt(f, off, data) ==
    [k \in 1 .. Max(Len(f), off + Len(data)) |->
        IF k > off /\ k <= off + Len(data) THEN data[k - off]
        ELSE IF k <= Len(f) THEN f[k] ELSE 0]

MutTruncate(f, n) == f
\* f.truncate(n)
Truncate(f, n) == [k \in 1 .. n |-> IF k <= Len(f) THEN f[k] ELSE 0]

\* msg.startswith("range_not_honored_status_")
MutStartsWithRangeStatus(msg) == FALSE
StartsWithRangeStatus(msg) == msg \in {"range_not_honored_status_200"}

NoWorker == [i \in Idx |-> "none"]
Zeros    == [i \in Idx |-> 0]
NoRes    == [i \in Idx |-> <<FALSE, "none">>]

----------------------------------------------------------------------------
Init ==
    /\ \E j \in Jobs : size = j[1] /\ parts = j[2]
    /\ retries \in 0 .. MaxRetries
    /\ fexists = FALSE /\ fdata = <<>> /\ dirExists = FALSE
    /\ state = [i \in Idx |-> -1]
    /\ pc = "idle"
    /\ psize = 0 /\ range_ok = FALSE /\ tasks = <<>> /\ progress = 0
    /\ ok = TRUE /\ range_not_supported = FALSE /\ future_map = {}
    /\ result = "none" /\ seqWhy = "none" /\ seqShort = FALSE
    /\ wpc = NoWorker /\ attempt = Zeros /\ done_bytes = Zeros
    /\ local_done = Zeros /\ wres = NoRes
    /\ probeCount = 0 /\ seqCount = 0 /\ state0 = state /\ posWrites = FALSE /\ did = {}

ResetWorkers ==
    /\ wpc' = NoWorker /\ attempt' = Zeros /\ done_bytes' = Zeros
    /\ local_done' = Zeros /\ wres' = NoRes

\* A new invocation of parallel_download(url, out, parts, retries, chunk_mb)
StartRun ==
    /\ pc \in {"idle", "returned"}
    /\ pc' = "probe"
    /\ psize' = 0 /\ range_ok' = FALSE /\ tasks' = <<>> /\ progress' = 0
    /\ ok' = TRUE /\ range_not_supported' = FALSE /\ future_map' = {}
    /\ result' = "none" /\ seqWhy' = "none" /\ seqShort' = FALSE
    /\ ResetWorkers
    /\ probeCount' = 0 /\ seqCount' = 0 /\ state0' = state /\ posWrites' = FALSE /\ did' = {}
    /\ UNCHANGED <<jobVars, diskVars>>

Return(r) == pc' = "returned" /\ result' = r

\* The frame of an orchestrator step that touches neither the disk nor the workers
OrchOnly == UNCHANGED <<jobVars, diskVars, workVars>>

----------------------------------------------------------------------------
\* probe_size_and_range

\* headLen: Content-Length of the HEAD answer, 0 when HEAD fails or has none.
\* getOk: the GET bytes=0-0 did not raise.  crTotal: the total after "/" in
\* Content-Range, 0 when it is not a number.
ProbeSize(headLen, getOk, hasCR, crTotal) ==
    IF getOk /\ headLen = 0 /\ hasCR /\ crTotal > 0 THEN crTotal ELSE headLen

ProbeRange(getOk, status, hasCR) == getOk /\ status = 206 /\ hasCR

Probe ==
    /\ pc = "probe"
    /\ \E headLen \in {0, size}, getOk \in BOOLEAN, status \in {200, 206},
          hasCR \in BOOLEAN, crTotal \in {0, size} :
          /\ psize' = ProbeSize(headLen, getOk, hasCR, crTotal)
          /\ range_ok' = ProbeRange(getOk, status, hasCR)
    /\ probeCount' = probeCount + 1
    /\ pc' = "decide"
    /\ UNCHANGED <<tasks, progress, ok, range_not_supported, future_map,
                   result, seqWhy, seqShort, seqCount, state0, posWrites, did>>
    /\ OrchOnly

----------------------------------------------------------------------------
\* parallel_download, up to the dispatch of the workers

SizeUnknown(sz) == sz <= 0

MutNoParallel(rok, p) == ~rok
NoParallel(rok, p) == ~rok \/ p <= 1

Decide ==
    /\ pc = "decide"
    /\ IF SizeUnknown(psize) THEN pc' = "seq" /\ seqWhy' = "no_size"
       ELSE IF NoParallel(range_ok, parts) THEN pc' = "seq" /\ seqWhy' = "no_range"
       ELSE pc' = "mkdir" /\ seqWhy' = seqWhy
    /\ UNCHANGED <<psize, range_ok, tasks, progress, ok, range_not_supported,
                   future_map, result, seqShort, histVars>>
    /\ OrchOnly

\* os.makedirs(state_dir, exist_ok=True)
Mkdir ==
    /\ pc = "mkdir"
    /\ dirExists' = TRUE
    /\ pc' = "presize"
    /\ UNCHANGED <<jobVars, workVars, fexists, fdata, state, psize,
                   range_ok, tasks, progress, ok, range_not_supported, future_map,
                   result, seqWhy, seqShort>>
    /\ did' = did \cup {"mkdir"}
    /\ UNCHANGED <<probeCount, seqCount, state0, posWrites>>

\* os.makedirs raises: nothing catches it
MkdirFail ==
    /\ pc = "mkdir"
    /\ Return("exception")
    /\ UNCHANGED <<psize, range_ok, tasks, progress, ok, range_not_supported,
                   future_map, seqWhy, seqShort, histVars>>
    /\ OrchOnly

\* The output does not exist: open(out, "wb"); f.truncate(size)
PresizeCreate ==
    /\ pc = "presize" /\ ~fexists
    /\ fexists' = TRUE
    /\ fdata' = Truncate(<<>>, psize)
    /\ pc' = "plan"
    /\ UNCHANGED <<jobVars, workVars, dirExists, state, psize,
                   range_ok, tasks, progress, ok, range_not_supported, future_map,
                   result, seqWhy, seqShort>>
    /\ did' = did \cup {"presize"}
    /\ UNCHANGED <<probeCount, seqCount, state0, posWrites>>

\* ... and that open or truncate raises, outside of any try
PresizeCreateFail ==
    /\ pc = "presize" /\ ~fexists
    /\ Return("exception")
    /\ UNCHANGED <<psize, range_ok, tasks, progress, ok, range_not_supported,
                   future_map, seqWhy, seqShort, histVars>>
    /\ OrchOnly

\* The output exists: resize it unless its size is right already
PresizeResize ==
    /\ pc = "presize" /\ fexists
    /\ fdata' = IF Len(fdata) # psize THEN Truncate(fdata, psize) ELSE fdata
    /\ pc' = "plan"
    /\ UNCHANGED <<jobVars, workVars, fexists, dirExists, state, psize,
                   range_ok, tasks, progress, ok, range_not_supported, future_map,
                   result, seqWhy, seqShort>>
    /\ did' = did \cup {"presize"}
    /\ UNCHANGED <<probeCount, seqCount, state0, posWrites>>

\* ... and getsize or the resize raises: fall back to the sequential transfer
PresizeResizeFail ==
    /\ pc = "presize" /\ fexists
    /\ pc' = "seq" /\ seqWhy' = "presize"
    /\ UNCHANGED <<psize, range_ok, tasks, progress, ok, range_not_supported,
                   future_map, result, seqShort, histVars>>
    /\ OrchOnly

RECURSIVE InitialProgress(_, _, _)
\* progress[0] after the loop over the first k tasks of t
InitialProgress(t, st, k) ==
    IF k = 0 THEN 0
    ELSE InitialProgress(t, st, k - 1)
         + Min(ReadStateOf(st, k - 1), t[k][2] - t[k][1] + 1)

PlanTasks ==
    /\ pc = "plan"
    /\ tasks' = Plan(psize, parts)
    /\ progress' = InitialProgress(tasks', state, parts)
    /\ pc' = "dispatch"
    /\ UNCHANGED <<psize, range_ok, ok, range_not_supported, future_map,
                   result, seqWhy, seqShort>>
    /\ OrchOnly
    /\ did' = did \cup {"plan"}
    /\ UNCHANGED <<probeCount, seqCount, state0, posWrites>>

\* ex.submit for every task; the pool has min(parts, 64) threads
Dispatch ==
    /\ pc = "dispatch"
    /\ wpc' = [i \in Idx |-> IF i < parts THEN "queued" ELSE "none"]
    /\ future_map' = 0 .. (parts - 1)
    /\ pc' = "wait"
    /\ UNCHANGED <<jobVars, diskVars, attempt, done_bytes, local_done, wres,
                   psize, range_ok, tasks, progress, ok,
                   range_not_supported, result, seqWhy, seqShort>>
    /\ did' = did \cup {"dispatch"}
    /\ UNCHANGED <<probeCount, seqCount, state0, posWrites>>

----------------------------------------------------------------------------
\* download_part_direct for part i, running on a pool thread

Running(i) == pc = "wait" /\ i \in future_map

WorkerFrame(i) ==
    UNCHANGED <<jobVars, orchVars, probeCount, seqCount, state0, did>>

Settle(i, success, msg) ==
    /\ wpc' = [wpc EXCEPT ![i] = "done"]
    /\ wres' = [wres EXCEPT ![i] = <<success, msg>>]
    /\ done_bytes' = [done_bytes EXCEPT ![i] = 0]
    /\ local_done' = [local_done EXCEPT ![i] = 0]

\* fd = os.open(out_path, os.O_WRONLY); attempt = 0
WOpen(i) ==
    /\ Running(i) /\ wpc[i] = "queued"
    /\ wpc' = [wpc EXCEPT ![i] = "loop"]
    /\ UNCHANGED <<diskVars, attempt, done_bytes, local_done, wres, posWrites>>
    /\ WorkerFrame(i)

\* os.open raises: the future carries the exception
WOpenFail(i) ==
    /\ Running(i) /\ wpc[i] = "queued"
    /\ Settle(i, FALSE, "raised")
    /\ UNCHANGED <<diskVars, attempt, posWrites>>
    /\ WorkerFrame(i)

MutRangeStart(start, done) == start
\* range_start = start + done_bytes
RangeStart(start, done) == start + done

MutIsComplete(done, expected) == done > expected
\* done_bytes >= expected
IsComplete(done, expected) == done >= expected

\* Head of the while loop: read the state, finish or issue the ranged GET
WLoop(i) ==
    /\ Running(i) /\ wpc[i] = "loop"
    /\ IF ~(attempt[i] <= retries)
       THEN Settle(i, FALSE, "unknown")
       ELSE IF IsComplete(ReadState(i), Expected(i))
       THEN Settle(i, TRUE, "ok")
       ELSE /\ done_bytes' = [done_bytes EXCEPT ![i] = ReadState(i)]
            /\ wpc' = [wpc EXCEPT ![i] = "request"]
            /\ UNCHANGED <<local_done, wres>>
    /\ UNCHANGED <<diskVars, attempt, posWrites>>
    /\ WorkerFrame(i)

MutExhausted(att, r) == att >= r
\* attempt > retries
Exhausted(att, r) == att > r

MutNextAttempt(att) == att
\* attempt += 1
NextAttempt(att) == att + 1

\* except Exception as e: attempt += 1; give up or sleep and loop
Caught(i, e) ==
    /\ attempt' = [attempt EXCEPT ![i] = NextAttempt(attempt[i])]
    /\ IF Exhausted(NextAttempt(attempt[i]), retries)
       THEN Settle(i, FALSE, IF e = "transport" THEN "exception: transport"
                                                 ELSE "exception: short_read")
       ELSE /\ wpc' = [wpc EXCEPT ![i] = "loop"]
            /\ done_bytes' = [done_bytes EXCEPT ![i] = 0]
            /\ local_done' = [local_done EXCEPT ![i] = 0]
            /\ UNCHANGED wres

\* The request or the stream raises (connect, read, timeout)
WTransportError(i) ==
    /\ Running(i) /\ wpc[i] \in {"request", "stream"}
    /\ Caught(i, "transport")
    /\ UNCHANGED <<diskVars, posWrites>>
    /\ WorkerFrame(i)

\* r.status_code != 206 ends the part
Honored(status) == status = 206

\* The answer arrives: status and headers are examined
WRespond(i) ==
    /\ Running(i) /\ wpc[i] = "request"
    /\ \E status \in {200, 206}, hasCR \in BOOLEAN :
          IF ~Honored(status)
          THEN Settle(i, FALSE, "range_not_honored_status_200")
          ELSE IF ~hasCR
          THEN Settle(i, FALSE, "missing_content_range")
          ELSE /\ wpc' = [wpc EXCEPT ![i] = "stream"]
               /\ local_done' = [local_done EXCEPT ![i] = done_bytes[i]]
               /\ UNCHANGED <<done_bytes, wres>>
    /\ UNCHANGED <<diskVars, attempt, posWrites>>
    /\ WorkerFrame(i)

MutWriteOffset(start, done) == done
\* write_offset = start + local_done, advanced by len(chunk) after each write
WriteOffset(start, done) == start + done

\* One block of the body: _write_at, progress, and the timed state flush
WChunk(i) ==
    /\ Running(i) /\ wpc[i] = "stream"
    /\ local_done[i] < Expected(i)
    /\ \E n \in 1 .. Min(ChunkBytes, Expected(i) - local_done[i]), flush \in BOOLEAN :
          LET sent == local_done[i] - done_bytes[i]
              from == RangeStart(Start(i), done_bytes[i]) + sent
              write_offset == WriteOffset(Start(i), local_done[i])
          IN /\ fdata' = WriteAt(fdata, write_offset, Body(from, from + n - 1))
             /\ local_done' = [local_done EXCEPT ![i] = local_done[i] + n]
             /\ progress' = progress + n
             /\ state' = IF flush THEN [state EXCEPT ![i] = local_done[i] + n] ELSE state
    /\ posWrites' = TRUE
    /\ UNCHANGED <<jobVars, fexists, dirExists, wpc, attempt, done_bytes, wres,
                   pc, psize, range_ok, tasks, ok, range_not_supported,
                   future_map, result, seqWhy, seqShort, probeCount, seqCount, state0, did>>

\* The body ends (whole or early): final flush, then the completeness check
WStreamEnd(i) ==
    /\ Running(i) /\ wpc[i] = "stream"
    /\ state' = [state EXCEPT ![i] = local_done[i]]
    /\ IF IsComplete(local_done[i], Expected(i))
       THEN Settle(i, TRUE, "ok") /\ UNCHANGED attempt
       ELSE Caught(i, "short_read")
    /\ UNCHANGED <<fexists, fdata, dirExists, posWrites>>
    /\ WorkerFrame(i)

----------------------------------------------------------------------------
\* parallel_download, supervision and the end of the run

MutNextOk(o, success) == o
\* ok = False on a failed or raising part
NextOk(o, success) == o /\ success

\* A completed future is popped and its result examined
Collect(i) ==
    /\ pc = "wait" /\ i \in future_map /\ wpc[i] = "done"
    /\ future_map' = future_map \ {i}
    /\ ok' = NextOk(ok, wres[i][1])
    /\ range_not_supported' =
          (range_not_supported \/ (~wres[i][1] /\ StartsWithRangeStatus(wres[i][2])))
    /\ UNCHANGED <<pc, psize, range_ok, tasks, progress, result, seqWhy,
                   seqShort, histVars>>
    /\ OrchOnly

MutAllSettled == pc = "wait"
\* The with-block of the pool is left: the wait loop has popped every future
AllSettled == pc = "wait" /\ future_map = {}

\* if range_not_supported: return single_thread_download(...)
FinalFallback ==
    /\ AllSettled /\ range_not_supported
    /\ pc' = "seq" /\ seqWhy' = "range_fallback"
    /\ UNCHANGED <<psize, range_ok, tasks, progress, ok, range_not_supported,
                   future_map, result, seqShort, histVars>>
    /\ OrchOnly

MutFinalFailed ==
    /\ AllSettled /\ ~range_not_supported /\ ~ok
    /\ Return("failure")
    /\ state' = [i \in Idx |-> -1]
    /\ UNCHANGED <<jobVars, workVars, fexists, fdata, dirExists, psize, range_ok,
                   tasks, progress, ok, range_not_supported, future_map, seqWhy,
                   seqShort, histVars>>
\* if not ok: return False
FinalFailed ==
    /\ AllSettled /\ ~range_not_supported /\ ~ok
    /\ Return("failure")
    /\ UNCHANGED <<psize, range_ok, tasks, progress, ok, range_not_supported,
                   future_map, seqWhy, seqShort, histVars>>
    /\ OrchOnly

\* done < expected
PartIncomplete(done, expected) == done < expected

AllPartsComplete == \A i \in 0 .. (parts - 1) : ~PartIncomplete(ReadState(i), Expected(i))

\* Verify all parts complete, then the final size
FinalVerify ==
    /\ AllSettled /\ ~range_not_supported /\ ok
    /\ IF AllPartsComplete /\ Len(fdata) = psize
       THEN pc' = "cleanup" /\ result' = result
       ELSE Return("failure")
    /\ UNCHANGED <<psize, range_ok, tasks, progress, ok, range_not_supported,
                   future_map, seqWhy, seqShort, histVars>>
    /\ OrchOnly

\* The first part whose state file os.remove does not find, parts if none
RECURSIVE FirstAbsent(_, _, _)
FirstAbsent(st, k, p) ==
    IF k >= p \/ st[k] < 0 THEN k ELSE FirstAbsent(st, k + 1, p)

\* try: os.remove each state file, os.rmdir; except: pass.  return True
Cleanup ==
    /\ pc = "cleanup"
    /\ LET k == FirstAbsent(state, 0, parts)
       IN /\ state' = [i \in Idx |-> IF i < k THEN -1 ELSE state[i]]
          /\ dirExists' = IF k = parts THEN FALSE ELSE dirExists
    /\ Return("success")
    /\ UNCHANGED <<jobVars, workVars, histVars, fexists, fdata, psize, range_ok,
                   tasks, progress, ok, range_not_supported, future_map, seqWhy,
                   seqShort>>

----------------------------------------------------------------------------
\* single_thread_download

SeqFrame == UNCHANGED <<jobVars, workVars, dirExists, state, psize, range_ok,
                        tasks, progress, ok, range_not_supported, future_map, seqWhy,
                        probeCount, state0, posWrites, did>>

\* sess.get answers 2xx and open(out, "wb") truncates the output
SeqOpen ==
    /\ pc = "seq"
    /\ seqCount' = seqCount + 1
    /\ fexists' = TRUE /\ fdata' = <<>>
    /\ pc' = "seq_stream"
    /\ UNCHANGED <<result, seqShort>>
    /\ SeqFrame

\* sess.get, raise_for_status or open raises: nothing catches it
SeqOpenFail ==
    /\ pc = "seq"
    /\ seqCount' = seqCount + 1
    /\ Return("exception")
    /\ UNCHANGED <<fexists, fdata, seqShort>>
    /\ SeqFrame

\* f.write(chunk)
SeqChunk ==
    /\ pc = "seq_stream"
    /\ Len(fdata) < size
    /\ \E n \in 1 .. Min(ChunkBytes, size - Len(fdata)) :
          fdata' = fdata \o Body(Len(fdata), Len(fdata) + n - 1)
    /\ UNCHANGED <<fexists, pc, result, seqShort, seqCount>>
    /\ SeqFrame

\* The stream ends, after the whole body or early: return True
SeqEnd ==
    /\ pc = "seq_stream"
    /\ seqShort' = (Len(fdata) < size)
    /\ Return("success")
    /\ UNCHANGED <<fexists, fdata, seqCount>>
    /\ SeqFrame

\* The stream raises: nothing catches it
SeqError ==
    /\ pc = "seq_stream"
    /\ Return("exception")
    /\ UNCHANGED <<fexists, fdata, seqShort, seqCount>>
    /\ SeqFrame

----------------------------------------------------------------------------
\* The process is killed: every thread is gone, the disk stays
Kill ==
    /\ pc \notin {"idle", "returned"}
    /\ Return("killed")
    /\ psize' = 0 /\ range_ok' = FALSE /\ tasks' = <<>> /\ progress' = 0
    /\ ok' = TRUE /\ range_not_supported' = FALSE /\ future_map' = {}
    /\ seqWhy' = "none" /\ seqShort' = FALSE
    /\ ResetWorkers
    /\ probeCount' = 0 /\ seqCount' = 0 /\ state0' = state /\ posWrites' = FALSE /\ did' = {}
    /\ UNCHANGED <<jobVars, diskVars>>

Worker(i) == WOpen(i) \/ WOpenFail(i) \/ WLoop(i) \/ WTransportError(i)
             \/ WRespond(i) \/ WChunk(i) \/ WStreamEnd(i)

Next == \/ StartRun \/ Probe \/ Decide \/ Mkdir \/ MkdirFail \/ PresizeCreate
        \/ PresizeCreateFail \/ PresizeResize \/ PresizeResizeFail \/ PlanTasks
        \/ Dispatch
        \/ \E i \in Idx : Worker(i)
        \/ \E i \in Idx : Collect(i)
        \/ FinalFallback \/ FinalFailed \/ FinalVerify \/ Cleanup
        \/ SeqOpen \/ SeqOpenFail \/ SeqChunk \/ SeqEnd \/ SeqError
        \/ Kill

Spec == Init /\ [][Next]_vars

\* The runs of the parallel path alone: a run that turns to the sequential
\* transfer goes no further, so single_thread_download never rewrites the output
ParNext == \/ StartRun \/ Probe \/ Decide \/ Mkdir \/ MkdirFail \/ PresizeCreate
           \/ PresizeCreateFail \/ PresizeResize \/ PresizeResizeFail \/ PlanTasks
           \/ Dispatch
           \/ \E i \in Idx : Worker(i)
           \/ \E i \in Idx : Collect(i)
           \/ FinalFallback \/ FinalFailed \/ FinalVerify \/ Cleanup
           \/ Kill

ParSpec == Init /\ [][ParNext]_vars

\* Scheduling: the pool has a thread for every part, so each worker keeps
\* running, and every request of it is answered, fails or times out; the main
\* thread keeps running the wait loop, the end of the run and the sequential
\* transfer.  Nothing obliges a kill or a new invocation to happen.
Fairness ==
    /\ \A i \in Idx : WF_vars(Worker(i))
    /\ WF_vars(\E i \in Idx : Collect(i))
    /\ WF_vars(FinalFallback \/ FinalFailed \/ FinalVerify \/ Cleanup)
    /\ WF_vars(SeqOpen \/ SeqOpenFail \/ SeqChunk \/ SeqEnd \/ SeqError)

FairSpec == Init /\ [][Next]_vars /\ Fairness
----------------------------------------------------------------------------
\* Properties

Parts == 0 .. (parts - 1)

Planned   == tasks # <<>>
Finished  == pc = "returned" /\ result # "killed"
DirectSeq == seqWhy \in {"no_size", "no_range"}

StatusMsg(i)   == wres[i] = <<FALSE, "range_not_honored_status_200">>
NoRangeMsg(i)  == wres[i] = <<FALSE, "missing_content_range">>
ExhaustedMsg(i) ==
    wres[i] \in {<<FALSE, "exception: transport">>, <<FALSE, "exception: short_read">>}

\* The ranged request of part i in flight: Range: bytes={range_start}-{end}
ReqRange(i) == <<RangeStart(Start(i), done_bytes[i]), End(i)>>

\* Every planned segment's stored value equals its length, and the size is right
IntegrityEq ==
    /\ \A k \in 1 .. Len(tasks) : ReadState(k - 1) = Expected(k - 1)
    /\ fexists /\ Len(fdata) = psize

\* No part failed, every stored value is at least the length, and the size is right
IntegrityGe ==
    /\ \A i \in Parts : wres[i][1]
    /\ \A i \in Parts : ReadState(i) >= Expected(i)
    /\ fexists /\ Len(fdata) = psize

\* The run is past its last check on the way to returning success
AboutToSucceed ==
    pc = "cleanup" \/ (Finished /\ result = "success" /\ seqWhy # "none" /\ ~seqShort)

\* Part i was complete when the run began: its stored value was at least its length
Complete0(i) == ReadStateOf(state0, i) >= Expected(i)

\* C1: the planned segments start at 0, end at total_length - 1, each has
\* start <= end, and each next one starts right after the previous one ends.
C1_PlanIsPartition ==
    Planned =>
        /\ tasks[1][1] = 0
        /\ tasks[Len(tasks)][2] = psize - 1
        /\ \A k \in 1 .. Len(tasks) : tasks[k][1] <= tasks[k][2]
        /\ \A k \in 1 .. (Len(tasks) - 1) : tasks[k + 1][1] = tasks[k][2] + 1

\* C2: a run that returns success has left the output byte-identical to the
\* resource.  Stated here for the runs whose sequential transfer, if any,
\* received the whole body, so that the violation does not rest on a
\* truncated stream.
C2_SuccessIsByteIdentical ==
    (Finished /\ result = "success" /\ ~seqShort) => (fexists /\ fdata = Content(size))

C4_NeverRaises == result # "exception"

\* C5 as claimed: once a ranged request of a part was answered 200, the run ends
\* through the sequential transfer with a complete, correct output and without
\* any positional write in that run (stated for the runs whose sequential
\* transfer returned after the whole body).
C5_NoPositionalWrite ==
    (Finished /\ result = "success" /\ ~seqShort /\ \E i \in Parts : StatusMsg(i)) =>
        /\ seqWhy = "range_fallback"
        /\ fdata = Content(size)
        /\ ~posWrites

\* C5 amended: a part whose ranged request is answered with a status other than
\* 206 writes nothing to the output for that answer, and the run then ends
\* through exactly one sequential transfer, whose outcome is the run's; when it
\* returns after the whole body the output is byte-correct.  Other parts, and
\* earlier attempts of the same part, may have written at their offsets.
C5_FallbackAfterStatus ==
    /\ [](Finished /\ (\E i \in Parts : StatusMsg(i)) =>
            /\ seqWhy = "range_fallback" /\ seqCount = 1
            /\ result \in {"success", "exception"}
            /\ (result = "success" /\ ~seqShort) => fdata = Content(size))
    /\ [][\A i \in Idx : (StatusMsg(i))' /\ ~StatusMsg(i) => fdata' = fdata]_vars
C5_Witness ==
    /\ Finished /\ result = "success" /\ StatusMsg(1) /\ posWrites
    /\ seqWhy = "range_fallback" /\ fdata = Content(size)

\* C6: a part answered without 206 or without Content-Range makes the run end
\* through the sequential transfer instead of an ordinary segment failure.
C6_NoRangeMeansFallback ==
    (Finished /\ \E i \in Parts : StatusMsg(i) \/ NoRangeMsg(i)) => seqWhy = "range_fallback"

\* C7: a run that ended through the global sequential fallback leaves no state
\* file and no sidecar directory behind.
C7_FallbackDiscardsState ==
    (Finished /\ result = "success" /\ ~seqShort /\ seqWhy = "range_fallback") =>
        (~dirExists /\ \A i \in Idx : state[i] = -1)

\* C8: one probe per run; with size unknown, no range support or parts <= 1 the
\* run is exactly one sequential transfer: no directory made, no pre-sizing, no
\* plan, no worker, no state file touched.
C8_DirectSequential ==
    /\ probeCount <= 1
    /\ (pc \notin {"idle", "probe"} /\ result # "killed") => probeCount = 1
    /\ (pc \notin {"idle", "probe", "decide"} /\ result # "killed"
           /\ (psize <= 0 \/ ~range_ok \/ parts <= 1)) =>
         /\ DirectSeq /\ did = {} /\ ~Planned /\ wpc = NoWorker
         /\ state = state0 /\ ~posWrites
         /\ pc \in {"seq", "seq_stream", "returned"}
         /\ seqCount = (IF pc = "seq" THEN 0 ELSE 1)
         /\ (pc = "returned" => result \in {"success", "exception"})
C8_Witness ==
    /\ Finished /\ result = "success" /\ seqWhy = "no_range" /\ parts = 2
    /\ ~range_ok /\ psize = size /\ dirExists /\ state[0] = 1
    /\ fdata = Content(size)

\* C9: with K the confirmed value stored when the run began, 0 <= K < length,
\* every ranged request of the part asks for [first, end] with first >= start + K,
\* and a part that returns success has its stored value at length.
C9_ResumeFromConfirmed ==
    \A i \in Parts :
        (pc = "wait" /\ ReadStateOf(state0, i) < Expected(i)) =>
            /\ wpc[i] \in {"request", "stream"} =>
                  /\ ReqRange(i)[1] >= Start(i) + ReadStateOf(state0, i)
                  /\ ReqRange(i)[2] = End(i)
            /\ wres[i][1] => ReadState(i) = Expected(i)
C9_Witness ==
    /\ pc = "wait" /\ Expected(0) = 2 /\ state0[0] = 1
    /\ wres[0] = <<TRUE, "ok">> /\ state[0] = 2

\* C10 as claimed: a part that fails on every attempt of its budget makes the
\* overall result failure (stated for the runs that return a value).
C10_ExhaustedMeansFailure ==
    (Finished /\ result # "exception" /\ \E i \in Parts : ExhaustedMsg(i)) =>
        result = "failure"

\* C10 amended: a part gives up exactly after retries + 1 failed attempts, with
\* a failure that carries the last error, and the overall result is then
\* failure unless a part reported range_not_honored_status_, in which case the
\* run ends through the sequential transfer.
C10_ExhaustedUnlessFallback ==
    /\ \A i \in Idx :
          /\ attempt[i] <= retries + 1
          /\ attempt[i] = retries + 1 <=> ExhaustedMsg(i)
    /\ (Finished /\ \E i \in Parts : ExhaustedMsg(i)) =>
          IF \E j \in Parts : StatusMsg(j)
          THEN seqWhy = "range_fallback" /\ result \in {"success", "exception"}
          ELSE result = "failure"
C10_Witness ==
    /\ Finished /\ result = "failure" /\ retries = 1
    /\ wres[0] = <<FALSE, "exception: transport">> /\ attempt[0] = 2
    /\ state[0] = -1

\* C11: a run that returns success through the parallel path (size > 0,
\* parts >= 2) has removed every state file and the sidecar directory.
C11_SuccessRemovesState ==
    (Finished /\ result = "success" /\ seqWhy = "none" /\ size > 0 /\ parts >= 2) =>
        (~dirExists /\ \A i \in Idx : state[i] = -1)

\* C12: a run that returns failure on the parallel path has deleted or altered
\* no state file and kept the sidecar directory.  A state file changes only when
\* its own worker persists its local_done, or in the clean-up of a run that
\* returns success; the step that returns failure leaves the disk as it is.
C12_FailureKeepsState ==
    /\ []((Finished /\ result = "failure") => (Planned /\ dirExists))
    /\ [][/\ result' = "failure" => (state' = state /\ dirExists' = dirExists)
          /\ \A i \in Idx :
                state'[i] # state[i] =>
                    \/ pc = "cleanup" /\ result' = "success"
                    \/ /\ Running(i) /\ wpc[i] = "stream"
                       /\ state'[i] = IF wpc'[i] = "stream" THEN local_done'[i]
                                                             ELSE local_done[i]
                       /\ \A j \in Idx \ {i} : state'[j] = state[j]]_vars
C12_Witness ==
    /\ Finished /\ result = "failure" /\ size = 3 /\ parts = 2
    /\ wres[0] = <<FALSE, "exception: short_read">>
    /\ state0[0] = -1 /\ state[0] = 1 /\ state[1] = 1 /\ dirExists

\* C13: on the parallel path the output has exactly the probed size from the
\* pre-sizing on, before any worker is dispatched and until every worker has
\* settled; no positional write changes the size.
C13_SizeStaysTotal ==
    pc \in {"plan", "dispatch", "wait"} => (fexists /\ psize = size /\ Len(fdata) = psize)
C13_Witness ==
    /\ pc = "wait" /\ posWrites /\ size = 3 /\ parts = 2
    /\ wpc[0] = "queued" /\ wpc[1] = "stream" /\ fdata = <<0, 0, 3>>

\* C14: the planned ranges of two different parts share no offset, and every
\* positional write of the worker of part i lands inside [start_i, end_i]: the
\* block it writes, and every byte of the output that changes in that step, lie
\* in the part's own range, whatever the other workers are doing.
C14_WritesInsideOwnRange ==
    /\ [](Planned =>
            \A i, j \in Parts :
                i # j => (Start(i) .. End(i)) \cap (Start(j) .. End(j)) = {})
    /\ [][\A i \in Idx :
            (Running(i) /\ wpc[i] = "stream" /\ local_done'[i] > local_done[i]) =>
                /\ Len(fdata') = Len(fdata)
                /\ Start(i) <= Start(i) + local_done[i]
                /\ Start(i) + local_done'[i] - 1 <= End(i)
                /\ \A k \in 1 .. Len(fdata) :
                      fdata'[k] # fdata[k] => (k - 1) \in Start(i) .. End(i)]_vars
C14_Witness ==
    /\ pc = "wait" /\ size = 3 /\ parts = 2
    /\ wpc[0] = "stream" /\ wpc[1] = "stream"
    /\ local_done[0] = 1 /\ local_done[1] = 1 /\ fdata = <<1, 0, 3>>

\* C15: in a run that started with every state file absent or holding a value
\* between 0 and its segment's length, every planned segment's stored value,
\* as _read_state returns it, stays between 0 and end - start + 1.
C15_ConfirmedWithinLength ==
    (Planned /\ \A i \in Parts : state0[i] = -1 \/ state0[i] \in 0 .. Expected(i)) =>
        \A i \in Parts : 0 <= ReadState(i) /\ ReadState(i) <= Expected(i)

C18_FallbackAfterWorkers ==
    /\ [](pc \in {"seq", "seq_stream"} =>
            /\ future_map = {}
            /\ \A i \in Idx : wpc[i] \in {"none", "done"}
            /\ seqWhy = "range_fallback" => \A i \in Parts : wpc[i] = "done")
    /\ [][(pc = "wait" /\ pc' = "seq") =>
            (future_map = {} /\ \A i \in Parts : wpc[i] = "done")]_vars
C18_Witness ==
    /\ pc = "seq_stream" /\ seqWhy = "range_fallback" /\ size = 3 /\ parts = 2
    /\ StatusMsg(0) /\ wres[1] = <<TRUE, "ok">> /\ state[1] = 1 /\ fdata = <<1>>

\* C19: every worker settles and the run returns.  A request is in flight only
\* while at most retries attempts have failed, so a worker issues at most
\* retries + 1 requests; a worker that has returned keeps its outcome for the
\* rest of the run; every dispatched worker eventually returns (or the process
\* is killed); and once all workers have returned the run eventually ends: it
\* returns a value or, from the sequential transfer, raises.
C19_WorkersSettleRunReturns ==
    /\ [](\A i \in Idx :
            /\ attempt[i] <= retries + 1
            /\ wpc[i] \in {"request", "stream"} => attempt[i] <= retries)
    /\ [][\A i \in Idx :
            (wpc[i] = "done" /\ pc' # "probe" /\ result' # "killed") =>
                (wpc'[i] = "done" /\ wres'[i] = wres[i])]_vars
    /\ \A i \in Idx :
          (pc = "wait" /\ i \in Parts /\ wpc[i] # "done") ~>
              (wpc[i] = "done" \/ pc = "returned")
    /\ (pc = "wait" /\ \A i \in Parts : wpc[i] = "done") ~> (pc = "returned")
C19_Witness ==
    /\ pc = "returned" /\ result = "failure" /\ size = 3 /\ parts = 2 /\ retries = 1
    /\ attempt[0] = 2 /\ wres[0] = <<FALSE, "exception: short_read">>
    /\ attempt[1] = 1 /\ wres[1] = <<TRUE, "ok">>

\* C20: on the parallel path the shared progress counter stays between 0 and
\* the total length, from its initialisation out of the state files through all
\* retries of all workers, and equals the total length once every part has
\* completed and the run has verified them (stated for the plans whose every
\* segment has start <= end, so that the violation does not rest on C1).
C20_ProgressWithinTotal ==
    (pc \in {"dispatch", "wait", "cleanup"} /\ \A i \in Parts : Start(i) <= End(i)) =>
        /\ 0 <= progress /\ progress <= psize
        /\ pc = "cleanup" => progress = psize
====
